---- MODULE Spec2Model ----
(***************************************************************************)
(* Credit metering and plan entitlement of the Assign backend: the users   *)
(* collection (one user document), the credit ledger, the plan validator,  *)
(* the allocation / refresh service and the request handlers that use      *)
(* them.  Every await of a handler is a step of its own, so that other     *)
(* handlers interleave exactly where the JavaScript event loop lets them.  *)
(***************************************************************************)
EXTENDS Integers, Sequences, FiniteSets, TLC

\* ---------------------------------------------------------------- bounds
MaxHandlers == 2
MaxRouteHandlers == 1
MaxRequests == 2
MaxMonth == 1
MaxEstimateWords == 21

\* ------------------------------------------------------ program constants
FreemiumMonthlyCredits == 200
ProMonthlyCredits == 2000
InitialCredits == 200
WritingRatio == 3
ResearchRatio == 5
DetectorGenerationRatio == 5
PromptEngineerRatio == 100
DetectionCreditsPerThousand == 50
MaxResearchWords == 8000
WordsPerDepth == 1000

Handlers == 1..MaxHandlers
\* the handlers that serve the research routes
RouteHandlers == 1..MaxRouteHandlers
NoTime == -1
NoPlan == ""

VARIABLES
  user,     \* the document users/{uid}
  usage,    \* usage tracker: credits recorded for the user, per month
  txs,      \* the ledger's transaction records, indexed by transactionId
  now,      \* the current calendar month
  served,   \* number of requests started so far
  h         \* the running request handlers: position and local variables

vars == <<user, usage, txs, now, served, h>>

\* ------------------------------------------------------------ user document
\* A field that a document lacks reads as 0 / "" / NoTime: every reader in the
\* source goes through `data.credits || 0` or `data.planType || "freemium"`.
NoUser ==
  [exists |-> FALSE, planType |-> NoPlan, credits |-> 0, createdAt |-> NoTime,
   lastCreditRefresh |-> NoTime, subscriptionStatus |-> ""]

CeilDiv(a, b) == (a + b - 1) \div b

\* PlanValidator.limits: the registered plan types and their monthly credits
\* (0 stands for null, no cap).
PlanTypes == {"freemium", "pro", "custom"}

limits(planType) ==
  CASE planType = "freemium" -> FreemiumMonthlyCredits
    [] planType = "pro" -> ProMonthlyCredits
    [] OTHER -> 0

\* PlanValidator.estimateCreditsNeeded
ToolTypes == {"writing", "research", "detector_detection", "detector_generation",
              "prompt_engineer"}

ratios(toolType) ==
  CASE toolType = "writing" -> WritingRatio
    [] toolType = "research" -> ResearchRatio
    [] toolType = "detector_generation" -> DetectorGenerationRatio
    [] toolType = "prompt_engineer" -> PromptEngineerRatio
    [] OTHER -> WritingRatio

estimateCreditsNeeded(wordCount, toolType) ==
  IF toolType = "detector_detection"
    THEN CeilDiv(wordCount * DetectionCreditsPerThousand, 1000)
    ELSE CeilDiv(wordCount, ratios(toolType))

\* ---------------------------------------------------------- credit ledger
\* ImprovedCreditSystem: reserve / commit / rollback / refund.
calculateRequiredCredits(wordCount, toolType) ==
  IF toolType = "detector_detection"
    THEN CeilDiv(wordCount * DetectionCreditsPerThousand, 1000)
    ELSE CeilDiv(wordCount, ratios(toolType))

NoResult ==
  [success |-> FALSE, transactionId |-> 0, creditsDeducted |-> 0,
   wordsAllocated |-> 0, newBalance |-> 0, requiredCredits |-> 0,
   previousBalance |-> 0]

ReserveNoCheck(u, required) == u.exists

CanReserveStrict(u, required) == u.exists /\ u.credits > required

\* the check of the reserve transaction: the balance read covers the cost
CanReserve(u, required) == u.exists /\ u.credits >= required

\* result of deductCreditsAtomic for a cost in credits, on user document u
ReserveResult(u, required, words, nextId) ==
  IF CanReserve(u, required)
    THEN [success |-> TRUE, transactionId |-> nextId, creditsDeducted |-> required,
          wordsAllocated |-> words, newBalance |-> u.credits - required,
          requiredCredits |-> required, previousBalance |-> u.credits]
    ELSE [NoResult EXCEPT !.requiredCredits = required,
                          !.previousBalance = u.credits]

\* the user document after deductCreditsAtomic
ReserveUser(u, required) ==
  IF CanReserve(u, required) THEN [u EXCEPT !.credits = @ - required] ELSE u

\* the transaction records after deductCreditsAtomic
ReserveTxs(t, u, required, words, tool) ==
  IF CanReserve(u, required)
    THEN Append(t, [state |-> "reserved", creditsReserved |-> required,
                    wordsAllocated |-> words, toolType |-> tool])
    ELSE t

TxState(t, id) == IF id \in DOMAIN t THEN t[id].state ELSE "unknown"

\* commit(tx): reserved -> committed; committed stays; anything else raises
CommitRaises(t, id) == TxState(t, id) \notin {"reserved", "committed"}

CommitTxsAny(t, id) ==
  IF id \in DOMAIN t THEN [t EXCEPT ![id].state = "committed"] ELSE t

CommitTxs(t, id) ==
  IF TxState(t, id) = "reserved" THEN [t EXCEPT ![id].state = "committed"] ELSE t

\* rollback(tx) / rollbackTransaction(uid, tx, credits, words): only a reserved
\* transaction is rolled back; a second rollback restores nothing
RollbackActs(t, id) == TxState(t, id) = "reserved"

RollbackRaises(t, id) == TxState(t, id) \in {"committed", "unknown"}

RollbackTxs(t, id) ==
  IF RollbackActs(t, id) THEN [t EXCEPT ![id].state = "rolled_back"] ELSE t

RollbackUser(u, t, id, creditsToRestore) ==
  IF RollbackActs(t, id) THEN [u EXCEPT !.credits = @ + creditsToRestore] ELSE u

\* refundCredits(uid, amount, reason): unconditional addition
RefundUser(u, amount) == [u EXCEPT !.credits = @ + amount]

\* --------------------------------------------------------------- handlers
Idle ==
  [kind |-> "none", pc |-> "idle", words |-> 0, res |-> NoResult,
   at |-> NoTime, plan |-> NoPlan, tool |-> "", code |-> "", threw |-> "",
   est |-> 0, save |-> FALSE, actual |-> 0, final |-> 0, rolledBack |-> FALSE,
   response |-> "", given |-> FALSE, status |-> ""]

Free(i) == h[i].pc \in {"idle", "done"}

Begin(i, kind, pc, words) ==
  /\ Free(i)
  /\ served < MaxRequests
  /\ served' = served + 1
  /\ h' = [h EXCEPT ![i] = [Idle EXCEPT !.kind = kind, !.pc = pc, !.words = words]]

Init ==
  /\ user = NoUser
  /\ usage = [m \in 0..(MaxMonth + 1) |-> 0]
  /\ txs = <<>>
  /\ now = 0
  /\ served = 0
  /\ h = [i \in Handlers |-> Idle]

NewUserDocWithoutCredits(t) ==
  [exists |-> TRUE, planType |-> "freemium", credits |-> 0,
   createdAt |-> t, lastCreditRefresh |-> t, subscriptionStatus |-> ""]

\* routes/users.js POST /init: the document written on first login
NewUserDoc(t) ==
  [exists |-> TRUE, planType |-> "freemium", credits |-> InitialCredits,
   createdAt |-> t, lastCreditRefresh |-> t, subscriptionStatus |-> ""]

\* an account right after its first login
InitLedger ==
  /\ user = NewUserDoc(0)
  /\ usage = [m \in 0..(MaxMonth + 1) |-> 0]
  /\ txs = <<>>
  /\ now = 0
  /\ served = 0
  /\ h = [i \in Handlers |-> Idle]

\* routes/users.js POST /init: userRef.get(), then userRef.set() when the
\* document is missing. A login is not a tool request: it is not counted.
UsersInitGet(i) ==
  /\ Free(i)
  /\ h[i].kind # "init"
  /\ h' = [h EXCEPT ![i] = [Idle EXCEPT !.kind = "init",
                              !.pc = IF user.exists THEN "done" ELSE "init_set",
                              !.response = IF user.exists THEN "existing" ELSE ""]]
  /\ UNCHANGED <<user, usage, txs, now, served>>

UsersInitSet(i) ==
  /\ h[i].pc = "init_set"
  /\ user' = NewUserDoc(now)
  /\ h' = [h EXCEPT ![i].pc = "done", ![i].response = "newUser"]
  /\ UNCHANGED <<usage, txs, now, served>>

UsersInit(i) == UsersInitGet(i) \/ UsersInitSet(i)

\* ---- generateAssignmentForWriter (service function of the writer tool)
AssignmentWords == {1, 450, 600}

GawStart(i) ==
  /\ \E w \in AssignmentWords : Begin(i, "assignment", "gaw_reserve", w)
  /\ UNCHANGED <<user, usage, txs, now>>

GawReserve(i) ==
  /\ h[i].pc = "gaw_reserve"
  /\ LET required == calculateRequiredCredits(h[i].words, "writing")
         r == ReserveResult(user, required, h[i].words, Len(txs) + 1)
     IN /\ user' = ReserveUser(user, required)
        /\ txs' = ReserveTxs(txs, user, required, h[i].words, "writing")
        /\ h' = [h EXCEPT ![i].res = r,
                          ![i].pc = IF r.success THEN "gaw_generate" ELSE "done",
                          ![i].response = IF r.success THEN "" ELSE "insufficient"]
  /\ UNCHANGED <<usage, now, served>>

\* the generation and final detection calls return or throw; nothing catches
GawGenerate(i) ==
  /\ h[i].pc = "gaw_generate"
  /\ \E ok \in BOOLEAN :
       h' = [h EXCEPT ![i].pc = "done",
                      ![i].threw = IF ok THEN "" ELSE "provider",
                      ![i].response = IF ok THEN "success" ELSE "error"]
  /\ UNCHANGED <<user, usage, txs, now, served>>

\* ---- DetectorService.analyzeContent: startSession / commit / rollback
AnalyzeLengths == {20, 15000}

CharsPerCredit == 100

MinContentLength == 20

AnalyzeCost(length) == CeilDiv(length, CharsPerCredit)

\* startSession(userId, cost) is awaited outside the try: when it rejects,
\* the error leaves analyzeContent and no session exists
AnStart(i) ==
  /\ \E n \in AnalyzeLengths :
       n >= MinContentLength /\ Begin(i, "analyze", "an_session", n)
  /\ UNCHANGED <<user, usage, txs, now>>

AnSession(i) ==
  /\ h[i].pc = "an_session"
  /\ LET cost == AnalyzeCost(h[i].words)
         r == ReserveResult(user, cost, 0, Len(txs) + 1)
     IN /\ user' = ReserveUser(user, cost)
        /\ txs' = ReserveTxs(txs, user, cost, 0, "detector_detection")
        /\ h' = [h EXCEPT ![i].res = r,
                          ![i].pc = IF r.success THEN "an_check" ELSE "done",
                          ![i].threw = IF r.success THEN "" ELSE "ledger",
                          ![i].response = IF r.success THEN "" ELSE "error"]
  /\ UNCHANGED <<usage, now, served>>

\* originality.check returns or throws
AnCheck(i) ==
  /\ h[i].pc = "an_check"
  /\ \E ok \in BOOLEAN :
       h' = [h EXCEPT ![i].pc = IF ok THEN "an_commit" ELSE "an_rollback",
                      ![i].threw = IF ok THEN "" ELSE "provider"]
  /\ UNCHANGED <<user, usage, txs, now, served>>

AnCommit(i) ==
  /\ h[i].pc = "an_commit"
  /\ txs' = CommitTxs(txs, h[i].res.transactionId)
  /\ h' = [h EXCEPT ![i].pc = IF CommitRaises(txs, h[i].res.transactionId)
                                THEN "an_rollback" ELSE "an_save",
                    ![i].threw = IF CommitRaises(txs, h[i].res.transactionId)
                                   THEN "ledger" ELSE ""]
  /\ UNCHANGED <<user, usage, now, served>>

\* db.collection("detectorResults").add returns or throws
AnSave(i) ==
  /\ h[i].pc = "an_save"
  /\ \E ok \in BOOLEAN :
       h' = [h EXCEPT ![i].pc = IF ok THEN "done" ELSE "an_rollback",
                      ![i].threw = IF ok THEN "" ELSE "store",
                      ![i].response = IF ok THEN "success" ELSE ""]
  /\ UNCHANGED <<user, usage, txs, now, served>>

\* catch (err) { await creditSystem.rollback(session); throw err; }
AnRollback(i) ==
  /\ h[i].pc = "an_rollback"
  /\ LET id == h[i].res.transactionId
     IN /\ user' = RollbackUser(user, txs, id, txs[id].creditsReserved)
        /\ txs' = RollbackTxs(txs, id)
        /\ h' = [h EXCEPT ![i].pc = "done", ![i].rolledBack = RollbackActs(txs, id),
                          ![i].response = "error"]
  /\ UNCHANGED <<usage, now, served>>

\* ---- the ledger's exposed commit / rollback, called again for a transaction
\* (a retried confirmation, a second rollback)
LedgerCommit(i) ==
  /\ Free(i) /\ served < MaxRequests
  /\ \E id \in DOMAIN txs :
       /\ txs' = CommitTxs(txs, id)
       /\ h' = [h EXCEPT ![i] = [Idle EXCEPT !.kind = "commit", !.pc = "done",
                                   !.res = [NoResult EXCEPT !.transactionId = id],
                                   !.threw = IF CommitRaises(txs, id)
                                               THEN "ledger" ELSE "",
                                   !.response = IF CommitRaises(txs, id)
                                                  THEN "error" ELSE "ok"]]
  /\ served' = served + 1
  /\ UNCHANGED <<user, usage, now>>

LedgerRollback(i) ==
  /\ Free(i) /\ served < MaxRequests
  /\ \E id \in DOMAIN txs :
       /\ user' = RollbackUser(user, txs, id, txs[id].creditsReserved)
       /\ txs' = RollbackTxs(txs, id)
       /\ h' = [h EXCEPT ![i] = [Idle EXCEPT !.kind = "rollback", !.pc = "done",
                                   !.res = [NoResult EXCEPT !.transactionId = id],
                                   !.rolledBack = RollbackActs(txs, id),
                                   !.threw = IF RollbackRaises(txs, id)
                                               THEN "ledger" ELSE "",
                                   !.response = IF RollbackRaises(txs, id)
                                                  THEN "error" ELSE "ok"]]
  /\ served' = served + 1
  /\ UNCHANGED <<usage, now>>

\* ---- PlanValidator.validateRequest and what it calls
\* getUserPlan: planType: data.planType || "freemium"
getUserPlanType(u) == IF u.planType = NoPlan THEN "freemium" ELSE u.planType

\* first await of validateRequest: getUserPlan, then this.limits[planType]
PlanCheck(u) ==
  IF ~u.exists THEN "PLAN_NOT_FOUND"
  ELSE IF getUserPlanType(u) \notin PlanTypes THEN "INVALID_PLAN"
  ELSE ""

\* second await: validateCreditAvailability (getUserCredits throws for a
\* missing document; the catch turns it into CREDIT_VALIDATION_ERROR)
validateCreditAvailability(u, requestedWordCount, toolType) ==
  IF ~u.exists THEN "CREDIT_VALIDATION_ERROR"
  ELSE IF u.credits < estimateCreditsNeeded(requestedWordCount, toolType)
    THEN "INSUFFICIENT_CREDITS"
  ELSE ""

\* UsageTracker: the month's record and recordUsage
getMonthlyUsage(us, month) == us[month]

recordUsage(us, month, creditsUsed) == [us EXCEPT ![month] = @ + creditsUsed]

\* ---- routes/research.js
QueryDepths == {1, 9}

\* what conductResearch may report as wordCount for an estimate of w words
ActualWords(w) == {w, w - 100, w - 1, w + 100}

SourceCounts == {1, 400}

ResearchRefundRatio == 5

SourceCreditDivisor == 2

EstimatedWordCount(depth) ==
  IF depth * WordsPerDepth < MaxResearchWords
    THEN depth * WordsPerDepth ELSE MaxResearchWords

\* POST /query
QStart(i) ==
  /\ \E d \in QueryDepths, sv \in BOOLEAN :
       /\ Free(i) /\ served < MaxRequests /\ served' = served + 1
       /\ h' = [h EXCEPT ![i] = [Idle EXCEPT !.kind = "query", !.pc = "v_plan",
                                   !.words = EstimatedWordCount(d), !.save = sv]]
  /\ UNCHANGED <<user, usage, txs, now>>

\* POST /validate-sources
VsStart(i) ==
  /\ \E n \in SourceCounts : Begin(i, "sources", "v_plan", n)
  /\ UNCHANGED <<user, usage, txs, now>>

\* the word count each route hands to validateRequest
ValidateWords(r) == IF r.kind = "sources" THEN 0 ELSE r.words

VPlan(i) ==
  /\ h[i].pc = "v_plan"
  /\ LET c == PlanCheck(user)
     IN h' = [h EXCEPT ![i].code = c, ![i].plan = getUserPlanType(user),
                       ![i].pc = IF c = "" THEN "v_credits" ELSE "done",
                       ![i].response = IF c = "" THEN "" ELSE "forbidden"]
  /\ UNCHANGED <<user, usage, txs, now, served>>

VCreditsReserving(i) ==
  /\ h[i].pc = "v_credits"
  /\ LET c == validateCreditAvailability(user, ValidateWords(h[i]), "research")
         est == estimateCreditsNeeded(h[i].words, "research")
     IN /\ user' = ReserveUser(user, est)
        /\ txs' = ReserveTxs(txs, user, est, h[i].words, "research")
        /\ h' = [h EXCEPT ![i].code = c, ![i].est = est,
                          ![i].pc = IF c = "" THEN "reserve" ELSE "done",
                          ![i].response = IF c = "" THEN "" ELSE "forbidden"]
  /\ UNCHANGED <<usage, now, served>>

VCredits(i) ==
  /\ h[i].pc = "v_credits"
  /\ LET c == validateCreditAvailability(user, ValidateWords(h[i]), "research")
     IN h' = [h EXCEPT ![i].code = c,
                       ![i].est = estimateCreditsNeeded(ValidateWords(h[i]), "research"),
                       ![i].pc = IF c = "" THEN "reserve" ELSE "done",
                       ![i].response = IF c = "" THEN "" ELSE "forbidden"]
  /\ UNCHANGED <<user, usage, txs, now, served>>

\* creditSystem.deductCreditsAtomic(userId, words, planType, "research")
AfterReserve(kind) == IF kind = "query" THEN "q_research" ELSE "vs_validate"

Reserve(i) ==
  /\ h[i].pc = "reserve"
  /\ LET required == calculateRequiredCredits(h[i].words, "research")
         r == ReserveResult(user, required, h[i].words, Len(txs) + 1)
     IN /\ user' = ReserveUser(user, required)
        /\ txs' = ReserveTxs(txs, user, required, h[i].words, "research")
        /\ h' = [h EXCEPT ![i].res = r, ![i].final = r.creditsDeducted,
                          ![i].pc = IF r.success THEN AfterReserve(h[i].kind)
                                    ELSE "done",
                          ![i].response = IF r.success THEN "" ELSE "insufficient"]
  /\ UNCHANGED <<usage, now, served>>

\* researchService.conductResearch returns a word count or throws
QResearch(i) ==
  /\ h[i].pc = "q_research"
  /\ \/ h' = [h EXCEPT ![i].pc = "q_catch", ![i].threw = "provider"]
     \/ \E a \in ActualWords(h[i].words) :
          h' = [h EXCEPT ![i].actual = a,
                         ![i].pc = IF a # h[i].words THEN "q_reconcile"
                                   ELSE IF h[i].save THEN "q_save" ELSE "done",
                         ![i].response = IF a = h[i].words /\ ~h[i].save
                                           THEN "success" ELSE ""]
  /\ UNCHANGED <<user, usage, txs, now, served>>

\* Step 5: reconcile usage
QReconcile(i) ==
  /\ h[i].pc = "q_reconcile"
  /\ LET wordDiff == h[i].actual - h[i].words
         required == calculateRequiredCredits(wordDiff, "research")
         addl == ReserveResult(user, required, wordDiff, Len(txs) + 1)
         refund == CeilDiv(0 - wordDiff, ResearchRefundRatio)
     IN IF wordDiff > 0
          THEN /\ user' = ReserveUser(user, required)
               /\ txs' = ReserveTxs(txs, user, required, wordDiff, "research")
               /\ h' = [h EXCEPT ![i].final = IF addl.success
                                                THEN @ + addl.creditsDeducted ELSE @,
                                 ![i].pc = IF h[i].save THEN "q_save" ELSE "done",
                                 ![i].response = IF h[i].save THEN "" ELSE "success"]
          ELSE /\ user' = RefundUser(user, refund)
               /\ txs' = txs
               /\ h' = [h EXCEPT ![i].final = @ - refund,
                                 ![i].pc = IF h[i].save THEN "q_save" ELSE "done",
                                 ![i].response = IF h[i].save THEN "" ELSE "success"]
  /\ UNCHANGED <<usage, now, served>>

\* Step 6: saveResearchToHistory returns or throws
QSave(i) ==
  /\ h[i].pc = "q_save"
  /\ \E ok \in BOOLEAN :
       h' = [h EXCEPT ![i].pc = IF ok THEN "done" ELSE "q_catch",
                      ![i].threw = IF ok THEN "" ELSE "store",
                      ![i].response = IF ok THEN "success" ELSE ""]
  /\ UNCHANGED <<user, usage, txs, now, served>>

QueryRollbackWords(r) == r.wordsAllocated

\* the credits the catch block asks rollbackTransaction to restore
QueryRollbackCredits(r) == r.creditsDeducted

\* catch: rollbackTransaction when the deduction had succeeded, then 500
QCatch(i) ==
  /\ h[i].pc = "q_catch"
  /\ LET id == h[i].res.transactionId
     IN IF h[i].res.success
          THEN /\ user' = RollbackUser(user, txs, id, QueryRollbackCredits(h[i].res))
               /\ txs' = RollbackTxs(txs, id)
               /\ h' = [h EXCEPT ![i].pc = "done", ![i].response = "error",
                                 ![i].rolledBack = RollbackActs(txs, id)]
          ELSE /\ UNCHANGED <<user, txs>>
               /\ h' = [h EXCEPT ![i].pc = "done", ![i].response = "error"]
  /\ UNCHANGED <<usage, now, served>>

\* researchService.validateSources returns or throws; the catch only responds
VsValidate(i) ==
  /\ h[i].pc = "vs_validate"
  /\ \E ok \in BOOLEAN :
       h' = [h EXCEPT ![i].pc = IF ok THEN "vs_record" ELSE "done",
                      ![i].threw = IF ok THEN "" ELSE "provider",
                      ![i].response = IF ok THEN "" ELSE "error"]
  /\ UNCHANGED <<user, usage, txs, now, served>>

\* planValidator.recordUsage(userId, sources.length, estimatedCredits, ...)
VsRecord(i) ==
  /\ h[i].pc = "vs_record"
  /\ \/ /\ usage' = recordUsage(usage, now, CeilDiv(h[i].words, SourceCreditDivisor))
        /\ h' = [h EXCEPT ![i].pc = "done", ![i].response = "success",
                          ![i].final = CeilDiv(h[i].words, SourceCreditDivisor)]
     \/ /\ usage' = usage
        /\ h' = [h EXCEPT ![i].pc = "done", ![i].threw = "usage",
                          ![i].response = "error"]
  /\ UNCHANGED <<user, txs, now, served>>

Validate(i) == VPlan(i) \/ VCredits(i)

Query(i) == QStart(i) \/ QResearch(i) \/ QReconcile(i) \/ QSave(i) \/ QCatch(i)

Sources(i) == VsStart(i) \/ VsValidate(i) \/ VsRecord(i)

\* functions/index.js POST /webhook, checkout.session.completed: the merge
\* write of planType "premium"; allocateCredits(userId, "premium") finds no
\* such plan and its error is logged by the catch
StripeWebhook ==
  /\ user' = [user EXCEPT !.exists = TRUE, !.planType = "premium"]
  /\ user' # user
  /\ UNCHANGED <<usage, txs, now, served, h>>

\* ---- services/creditAllocationService.js
AlreadyRefreshedNever(u, month) == FALSE

\* "Already refreshed for this month?": lastCreditRefresh is a timestamp of
\* the same year and month as now
AlreadyRefreshed(u, month) ==
  u.lastCreditRefresh # NoTime /\ u.lastCreditRefresh = month

\* the outcome refreshFreemiumCredits decides from the document it read
RefreshOutcome(u, month) ==
  IF ~u.exists THEN "User not found"
  ELSE IF u.planType # "freemium" THEN "Not a freemium user"
  ELSE IF AlreadyRefreshed(u, month) THEN "Already refreshed this month"
  ELSE "refresh"

\* refreshFreemiumCredits: await userRef.get() and the checks on what it read.
\* The scheduler and the login routes call it; it is not a tool request.
RfGet(i) ==
  /\ Free(i)
  /\ LET o == RefreshOutcome(user, now)
     IN h' = [h EXCEPT ![i] = [Idle EXCEPT !.kind = "refresh", !.at = now,
                                 !.pc = IF o = "refresh" THEN "rf_update" ELSE "done",
                                 !.threw = IF o = "User not found" THEN "store" ELSE "",
                                 !.response = IF o = "refresh" THEN "" ELSE o]]
  /\ h' # h
  /\ UNCHANGED <<user, usage, txs, now, served>>

\* refreshFreemiumCredits: await userRef.update({credits, lastCreditRefresh})
RfUpdate(i) ==
  /\ h[i].pc = "rf_update"
  /\ user' = [user EXCEPT !.credits = FreemiumMonthlyCredits,
                          !.lastCreditRefresh = now]
  /\ h' = [h EXCEPT ![i].pc = "done", ![i].at = now, ![i].response = "refreshed"]
  /\ UNCHANGED <<usage, txs, now, served>>

Refresh(i) == RfGet(i) \/ RfUpdate(i)

\* allocateProCredits: await userRef.get(), then an increment of the credits
ApGet(i) ==
  /\ Begin(i, "allocate_pro", IF user.exists THEN "ap_update" ELSE "done", 0)
  /\ UNCHANGED <<user, usage, txs, now>>

ApUpdate(i) ==
  /\ h[i].pc = "ap_update"
  /\ user' = [user EXCEPT !.credits = @ + ProMonthlyCredits]
  /\ h' = [h EXCEPT ![i].pc = "done", ![i].response = "success"]
  /\ UNCHANGED <<usage, txs, now, served>>

AllocatePro(i) == ApGet(i) \/ ApUpdate(i)

\* ---- POST /user/:uid/credits: a transaction that adds req.body.amount
CreditAmounts == {-250, 100}

AddCredits ==
  /\ served < MaxRequests
  /\ \E amount \in CreditAmounts :
       user' = IF user.exists THEN [user EXCEPT !.credits = @ + amount] ELSE user
  /\ served' = served + 1
  /\ UNCHANGED <<usage, txs, now, h>>

\* ---- functions/index.js POST /refresh-credits: req.body.credits || 200,
\* written with set(..., {merge: true}); 0 stands for an absent value
ResetBodies == {0, -5}

DefaultResetValue == 200

ResetValue(body) == IF body = 0 THEN DefaultResetValue ELSE body

RefreshCreditsRoute ==
  /\ served < MaxRequests
  /\ \E body \in ResetBodies :
       user' = [user EXCEPT !.exists = TRUE, !.credits = ResetValue(body)]
  /\ served' = served + 1
  /\ UNCHANGED <<usage, txs, now, h>>

\* ---- POST /api/webhook, checkout.session.completed: the plan and its grant
\* are written with set(..., {merge: true})
CustomGrantCredits == 3300

PaidPlans == {"pro", "custom"}

WebhookCredits(plan) ==
  IF plan = "pro" THEN ProMonthlyCredits
  ELSE IF plan = "custom" THEN CustomGrantCredits
  ELSE FreemiumMonthlyCredits

CheckoutWebhook ==
  /\ \E plan \in PaidPlans :
       user' = [user EXCEPT !.exists = TRUE, !.planType = plan,
                            !.credits = WebhookCredits(plan),
                            !.subscriptionStatus = "active"]
  /\ user' # user
  /\ UNCHANGED <<usage, txs, now, served, h>>

\* a tool reserves credits for a request of w words (deductCreditsAtomic)
SpendWords == {450}

ToolReserve ==
  /\ served < MaxRequests
  /\ \E w \in SpendWords :
       LET required == calculateRequiredCredits(w, "writing")
       IN /\ user' = ReserveUser(user, required)
          /\ txs' = ReserveTxs(txs, user, required, w, "writing")
  /\ served' = served + 1
  /\ UNCHANGED <<usage, now, h>>

\* the calendar moves on to the next month
Tick ==
  /\ now < MaxMonth
  /\ now' = now + 1
  /\ UNCHANGED <<user, usage, txs, served, h>>

\* the research routes, the validator and the logins
NextResearch ==
  \/ \E i \in RouteHandlers :
       UsersInit(i) \/ Validate(i) \/ Reserve(i) \/ Query(i) \/ Sources(i)
  \/ StripeWebhook

SpecResearch == Init /\ [][NextResearch]_vars

Gaw(i) == GawStart(i) \/ GawReserve(i) \/ GawGenerate(i)

Analyze(i) ==
  \/ AnStart(i) \/ AnSession(i) \/ AnCheck(i)
  \/ AnCommit(i) \/ AnSave(i) \/ AnRollback(i)

\* the ledger and its direct callers
NextLedger ==
  \E i \in Handlers : Gaw(i) \/ Analyze(i) \/ LedgerCommit(i) \/ LedgerRollback(i)

SpecLedger == InitLedger /\ [][NextLedger]_vars

\* ---- writer route POST /generate: startSession ... commit
WriterWordCounts == {500, 1500}

WriterSessionRatio == 5

WgStart(i) ==
  /\ \E w \in WriterWordCounts : Begin(i, "generate", "wg_session", w)
  /\ UNCHANGED <<user, usage, txs, now>>

\* const session = await creditSystem.startSession(userId, cost), inside the try
WgSession(i) ==
  /\ h[i].pc = "wg_session"
  /\ LET cost == CeilDiv(h[i].words, WriterSessionRatio)
         r == ReserveResult(user, cost, h[i].words, Len(txs) + 1)
     IN /\ user' = ReserveUser(user, cost)
        /\ txs' = ReserveTxs(txs, user, cost, h[i].words, "writing")
        /\ h' = [h EXCEPT ![i].res = r,
                          ![i].pc = IF r.success THEN "wg_generate" ELSE "done",
                          ![i].threw = IF r.success THEN "" ELSE "ledger",
                          ![i].response = IF r.success THEN "" ELSE "error"]
  /\ UNCHANGED <<usage, now, served>>

\* multiPartGenerator.generate returns or throws; the catch only answers 500
WgGenerate(i) ==
  /\ h[i].pc = "wg_generate"
  /\ \E ok \in BOOLEAN :
       h' = [h EXCEPT ![i].pc = IF ok THEN "wg_save" ELSE "done",
                      ![i].threw = IF ok THEN "" ELSE "provider",
                      ![i].response = IF ok THEN "" ELSE "error"]
  /\ UNCHANGED <<user, usage, txs, now, served>>

\* contentHistory.save returns or throws
WgSave(i) ==
  /\ h[i].pc = "wg_save"
  /\ \E ok \in BOOLEAN :
       h' = [h EXCEPT ![i].pc = IF ok THEN "wg_commit" ELSE "done",
                      ![i].threw = IF ok THEN "" ELSE "store",
                      ![i].response = IF ok THEN "" ELSE "error"]
  /\ UNCHANGED <<user, usage, txs, now, served>>

\* await creditSystem.commit(session); logActivity swallows its own errors
WgCommit(i) ==
  /\ h[i].pc = "wg_commit"
  /\ txs' = CommitTxs(txs, h[i].res.transactionId)
  /\ h' = [h EXCEPT ![i].pc = "done",
                    ![i].threw = IF CommitRaises(txs, h[i].res.transactionId)
                                   THEN "ledger" ELSE "",
                    ![i].response = IF CommitRaises(txs, h[i].res.transactionId)
                                      THEN "error" ELSE "success"]
  /\ UNCHANGED <<user, usage, now, served>>

WriterGenerate(i) ==
  WgStart(i) \/ WgSession(i) \/ WgGenerate(i) \/ WgSave(i) \/ WgCommit(i)

\* ---- services/detectorService.js POST /generate: deductCreditsAtomic, then
\* generation, recordUsage and the history save inside one try whose catch
\* calls rollbackTransaction
GenerateWords == {450, 600}

DgStart(i) ==
  /\ \E w \in GenerateWords : Begin(i, "writer", "dg_reserve", w)
  /\ UNCHANGED <<user, usage, txs, now>>

DgReserve(i) ==
  /\ h[i].pc = "dg_reserve"
  /\ LET required == calculateRequiredCredits(h[i].words, "writing")
         r == ReserveResult(user, required, h[i].words, Len(txs) + 1)
     IN /\ user' = ReserveUser(user, required)
        /\ txs' = ReserveTxs(txs, user, required, h[i].words, "writing")
        /\ h' = [h EXCEPT ![i].res = r,
                          ![i].pc = IF r.success THEN "dg_generate" ELSE "done",
                          ![i].response = IF r.success THEN "" ELSE "insufficient"]
  /\ UNCHANGED <<usage, now, served>>

\* generateMultiPartContent, processCitations, processFinalDetection
DgGenerate(i) ==
  /\ h[i].pc = "dg_generate"
  /\ \E ok \in BOOLEAN :
       h' = [h EXCEPT ![i].pc = IF ok THEN "dg_record" ELSE "dg_rollback",
                      ![i].threw = IF ok THEN "" ELSE "provider"]
  /\ UNCHANGED <<user, usage, txs, now, served>>

\* planValidatorInstance.recordUsage({... creditsUsed: creditsDeducted ...})
\* returns or throws; PlanValidator.recordUsage rethrows
DgRecord(i) ==
  /\ h[i].pc = "dg_record"
  /\ \/ /\ usage' = recordUsage(usage, now, h[i].res.creditsDeducted)
        /\ h' = [h EXCEPT ![i].pc = "dg_save"]
     \/ /\ usage' = usage
        /\ h' = [h EXCEPT ![i].pc = "dg_rollback", ![i].threw = "usage"]
  /\ UNCHANGED <<user, txs, now, served>>

\* saveContentToHistory and the assignments document write
DgSave(i) ==
  /\ h[i].pc = "dg_save"
  /\ \E ok \in BOOLEAN :
       h' = [h EXCEPT ![i].pc = IF ok THEN "done" ELSE "dg_rollback",
                      ![i].threw = IF ok THEN "" ELSE "store",
                      ![i].response = IF ok THEN "success" ELSE ""]
  /\ UNCHANGED <<user, usage, txs, now, served>>

\* catch (generationError): ImprovedCreditSystem.rollbackTransaction(...) is
\* called on the class, not on the instance: the call either reaches the
\* ledger's rollback or raises inside the inner try, which only logs; the
\* error is rethrown and answered with 500
DgRollback(i) ==
  /\ h[i].pc = "dg_rollback"
  /\ LET id == h[i].res.transactionId
     IN \E reaches \in BOOLEAN :
          IF reaches
            THEN /\ user' = RollbackUser(user, txs, id, h[i].res.creditsDeducted)
                 /\ txs' = RollbackTxs(txs, id)
                 /\ h' = [h EXCEPT ![i].pc = "done", ![i].response = "error",
                                   ![i].rolledBack = RollbackActs(txs, id)]
            ELSE /\ UNCHANGED <<user, txs>>
                 /\ h' = [h EXCEPT ![i].pc = "done", ![i].response = "error"]
  /\ UNCHANGED <<usage, now, served>>

DetectorGenerate(i) ==
  \/ DgStart(i)
  \/ DgReserve(i)
  \/ DgGenerate(i)
  \/ DgRecord(i)
  \/ DgSave(i)
  \/ DgRollback(i)

\* ---- services/detectorService.js GET /usage/history
MaxMonthsParam == 13

DefaultHistoryMonths == 6

MaxHistoryMonths == 12

\* req.query.months: absent, or the text of an integer
MonthsQueries ==
  [given : {TRUE}, value : (-2)..MaxMonthsParam] \cup {[given |-> FALSE, value |-> 0]}

\* parseInt(req.query.months) || 6: NaN and 0 are falsy
ParsedMonths(q) ==
  IF q.given /\ q.value # 0 THEN q.value ELSE DefaultHistoryMonths

\* UsageTracker.getUserUsageHistory: the records of the last `months` months,
\* most recent first
getUserUsageHistory(us, month, months) ==
  [k \in 1..(IF months < month + 1 THEN months ELSE month + 1) |-> us[month - k + 1]]

HistStart(i) ==
  /\ Free(i)
  /\ served < MaxRequests
  /\ served' = served + 1
  /\ \E q \in MonthsQueries :
       h' = [h EXCEPT ![i] = [Idle EXCEPT !.kind = "history", !.pc = "hist_answer",
                                          !.words = q.value, !.given = q.given]]
  /\ UNCHANGED <<user, usage, txs, now>>

HistAnswer(i) ==
  /\ h[i].pc = "hist_answer"
  /\ LET months == ParsedMonths([given |-> h[i].given, value |-> h[i].words])
     IN IF months < 1 \/ months > MaxHistoryMonths
          THEN h' = [h EXCEPT ![i].pc = "done", ![i].response = "error",
                              ![i].code = "400"]
          ELSE h' = [h EXCEPT ![i].pc = "done", ![i].response = "success",
                              ![i].final = months,
                              ![i].actual = Len(getUserUsageHistory(usage, now, months))]
  /\ UNCHANGED <<user, usage, txs, now, served>>

UsageHistory(i) == HistStart(i) \/ HistAnswer(i)

\* ---- writer route POST /api/writer/generate (refundCredits variant)
WriterRouteWords == {500, 2000}

WrStart(i) ==
  /\ \E w \in WriterRouteWords : Begin(i, "writer_route", "wr_deduct", w)
  /\ UNCHANGED <<user, usage, txs, now>>

\* creditsNeeded = calculateRequiredCredits(wordCount, 'writing');
\* creditResult = await deductCreditsAtomic(userId, creditsNeeded, plan,
\* 'writing'): the credits are passed where the ledger takes a word count, and
\* nothing reads creditResult.success
WrDeduct(i) ==
  /\ h[i].pc = "wr_deduct"
  /\ LET creditsNeeded == calculateRequiredCredits(h[i].words, "writing")
         required == calculateRequiredCredits(creditsNeeded, "writing")
         r == ReserveResult(user, required, creditsNeeded, Len(txs) + 1)
     IN /\ user' = ReserveUser(user, required)
        /\ txs' = ReserveTxs(txs, user, required, creditsNeeded, "writing")
        /\ h' = [h EXCEPT ![i].res = r, ![i].est = creditsNeeded,
                          ![i].pc = "wr_generate"]
  /\ UNCHANGED <<usage, now, served>>

\* the generation calls return or throw; after a return the response object
\* reads the undeclared name enabledRefinement, which raises inside the same
\* try: both ways lead to catch (genError)
WrGenerate(i) ==
  /\ h[i].pc = "wr_generate"
  /\ \E ok \in BOOLEAN :
       h' = [h EXCEPT ![i].pc = "wr_refund",
                      ![i].threw = IF ok THEN "response" ELSE "provider"]
  /\ UNCHANGED <<user, usage, txs, now, served>>

\* catch (genError): await creditSystem.refundCredits(userId, creditsNeeded, ...)
WrRefund(i) ==
  /\ h[i].pc = "wr_refund"
  /\ user' = RefundUser(user, h[i].est)
  /\ h' = [h EXCEPT ![i].pc = "done", ![i].response = "error"]
  /\ UNCHANGED <<usage, txs, now, served>>

WriterRoute(i) == WrStart(i) \/ WrDeduct(i) \/ WrGenerate(i) \/ WrRefund(i)

\* ---- services/detectorService.js POST /create: the reserve, the early
\* response, then the generation with rollback and status 'failed' on error
CreateWords == {150, 450}

CrStart(i) ==
  /\ \E w \in CreateWords : Begin(i, "create", "cr_deduct", w)
  /\ UNCHANGED <<user, usage, txs, now>>

\* improvedCreditSystem.deductCreditsAtomic(userId, adjustedWordCount, 'writing')
CrDeduct(i) ==
  /\ h[i].pc = "cr_deduct"
  /\ LET required == calculateRequiredCredits(h[i].words, "writing")
         r == ReserveResult(user, required, h[i].words, Len(txs) + 1)
     IN /\ user' = ReserveUser(user, required)
        /\ txs' = ReserveTxs(txs, user, required, h[i].words, "writing")
        /\ h' = [h EXCEPT ![i].res = r,
                          ![i].pc = IF r.success THEN "cr_record" ELSE "done",
                          ![i].response = IF r.success THEN "" ELSE "insufficient"]
  /\ UNCHANGED <<usage, now, served>>

\* the initial assignment document (status 'generating') is written or the
\* write throws into the outer catch, which only answers 500
CrRecord(i) ==
  /\ h[i].pc = "cr_record"
  /\ \E ok \in BOOLEAN :
       h' = [h EXCEPT ![i].pc = IF ok THEN "cr_generate" ELSE "done",
                      ![i].status = IF ok THEN "generating" ELSE "",
                      ![i].threw = IF ok THEN "" ELSE "store",
                      ![i].response = IF ok THEN "started" ELSE "error"]
  /\ UNCHANGED <<user, usage, txs, now, served>>

\* generateAssignmentContent and checkPlagiarism return or throw
CrGenerate(i) ==
  /\ h[i].pc = "cr_generate"
  /\ \E ok \in BOOLEAN :
       h' = [h EXCEPT ![i].pc = IF ok THEN "cr_complete" ELSE "cr_rollback",
                      ![i].threw = IF ok THEN "" ELSE "provider"]
  /\ UNCHANGED <<user, usage, txs, now, served>>

\* the update that sets status 'completed' succeeds or throws into catch (genError)
CrComplete(i) ==
  /\ h[i].pc = "cr_complete"
  /\ \E ok \in BOOLEAN :
       h' = [h EXCEPT ![i].pc = IF ok THEN "done" ELSE "cr_rollback",
                      ![i].status = IF ok THEN "completed" ELSE @,
                      ![i].threw = IF ok THEN "" ELSE "store"]
  /\ UNCHANGED <<user, usage, txs, now, served>>

CreateRollbackNothing(r) == 0

\* the credits catch (genError) asks rollbackTransaction to restore
CreateRollbackCredits(r) == r.creditsDeducted

CrRollback(i) ==
  /\ h[i].pc = "cr_rollback"
  /\ LET id == h[i].res.transactionId
     IN /\ user' = RollbackUser(user, txs, id, CreateRollbackCredits(h[i].res))
        /\ txs' = RollbackTxs(txs, id)
        /\ h' = [h EXCEPT ![i].pc = "cr_fail", ![i].rolledBack = RollbackActs(txs, id)]
  /\ UNCHANGED <<usage, now, served>>

\* the update that sets status 'failed' succeeds or throws into the outer catch
CrFail(i) ==
  /\ h[i].pc = "cr_fail"
  /\ \E ok \in BOOLEAN :
       h' = [h EXCEPT ![i].pc = "done",
                      ![i].status = IF ok THEN "failed" ELSE @]
  /\ UNCHANGED <<user, usage, txs, now, served>>

CreateAssignment(i) ==
  \/ CrStart(i)
  \/ CrDeduct(i)
  \/ CrRecord(i)
  \/ CrGenerate(i)
  \/ CrComplete(i)
  \/ CrRollback(i)
  \/ CrFail(i)

\* ---- POST /api/users/refresh-credits, the variant that delegates to
\* creditAllocationService by the plan it reads
RrGet(i) ==
  /\ Free(i)
  /\ served < MaxRequests
  /\ served' = served + 1
  /\ h' = [h EXCEPT ![i] =
             [Idle EXCEPT !.kind = "refresh_route", !.plan = user.planType,
                          !.pc = IF ~user.exists THEN "done"
                                 ELSE IF user.planType = "freemium" THEN "rr_freemium"
                                 ELSE IF user.planType = "pro" THEN "rr_pro"
                                 ELSE "done",
                          !.response = IF ~user.exists THEN "User not found"
                                       ELSE IF user.planType \in {"freemium", "pro"} THEN ""
                                       ELSE "skipped"]]
  /\ UNCHANGED <<user, usage, txs, now>>

\* refreshFreemiumCredits: the read and its checks
RrFreemium(i) ==
  /\ h[i].pc = "rr_freemium"
  /\ LET o == RefreshOutcome(user, now)
     IN h' = [h EXCEPT ![i].pc = IF o = "refresh" THEN "rr_update" ELSE "done",
                       ![i].threw = IF o = "User not found" THEN "store" ELSE "",
                       ![i].response = IF o = "refresh" THEN "" ELSE o]
  /\ UNCHANGED <<user, usage, txs, now, served>>

\* refreshFreemiumCredits: the update
RrUpdate(i) ==
  /\ h[i].pc = "rr_update"
  /\ user' = [user EXCEPT !.credits = FreemiumMonthlyCredits,
                          !.lastCreditRefresh = now]
  /\ h' = [h EXCEPT ![i].pc = "done", ![i].at = now, ![i].response = "refreshed"]
  /\ UNCHANGED <<usage, txs, now, served>>

\* allocateProCredits: the read
RrPro(i) ==
  /\ h[i].pc = "rr_pro"
  /\ h' = [h EXCEPT ![i].pc = IF user.exists THEN "rr_increment" ELSE "done",
                    ![i].threw = IF user.exists THEN "" ELSE "store",
                    ![i].response = IF user.exists THEN "" ELSE "User not found"]
  /\ UNCHANGED <<user, usage, txs, now, served>>

\* allocateProCredits: update({credits: increment(2000)})
RrIncrement(i) ==
  /\ h[i].pc = "rr_increment"
  /\ user' = [user EXCEPT !.credits = @ + ProMonthlyCredits]
  /\ h' = [h EXCEPT ![i].pc = "done", ![i].at = now, ![i].response = "success"]
  /\ UNCHANGED <<usage, txs, now, served>>

RefreshRoute(i) ==
  RrGet(i) \/ RrFreemium(i) \/ RrUpdate(i) \/ RrPro(i) \/ RrIncrement(i)

\* ---- routes/googleAuth.js POST /google
\* the document the sign-in writes for a new user: no credits field, no
\* lastCreditRefresh
GoogleUserDoc(t) ==
  [exists |-> TRUE, planType |-> "freemium", credits |-> 0, createdAt |-> t,
   lastCreditRefresh |-> NoTime, subscriptionStatus |-> "inactive"]

GaGet(i) ==
  /\ Free(i)
  /\ h[i].kind # "google"
  /\ h' = [h EXCEPT ![i] = [Idle EXCEPT !.kind = "google",
                              !.pc = IF user.exists THEN "done" ELSE "ga_set",
                              !.response = IF user.exists THEN "existing" ELSE ""]]
  /\ UNCHANGED <<user, usage, txs, now, served>>

GaSet(i) ==
  /\ h[i].pc = "ga_set"
  /\ user' = GoogleUserDoc(now)
  /\ h' = [h EXCEPT ![i].pc = "ga_refresh"]
  /\ UNCHANGED <<usage, txs, now, served>>

\* await creditAllocationService.refreshFreemiumCredits(userId): its get
GaRefreshGet(i) ==
  /\ h[i].pc = "ga_refresh"
  /\ LET o == RefreshOutcome(user, now)
     IN h' = [h EXCEPT ![i].at = now,
                       ![i].pc = IF o = "refresh" THEN "ga_update" ELSE "done",
                       ![i].threw = IF o = "User not found" THEN "store" ELSE "",
                       ![i].response = IF o = "refresh" THEN ""
                                       ELSE IF o = "User not found" THEN "error"
                                       ELSE "newUser"]
  /\ UNCHANGED <<user, usage, txs, now, served>>

\* ... and its update
GaRefreshUpdate(i) ==
  /\ h[i].pc = "ga_update"
  /\ user' = [user EXCEPT !.credits = FreemiumMonthlyCredits,
                          !.lastCreditRefresh = now]
  /\ h' = [h EXCEPT ![i].pc = "done", ![i].response = "newUser"]
  /\ UNCHANGED <<usage, txs, now, served>>

GoogleAuth(i) == GaGet(i) \/ GaSet(i) \/ GaRefreshGet(i) \/ GaRefreshUpdate(i)

\* ---- authenticateToken: fallback when the user document is missing
AfGet(i) ==
  /\ Free(i)
  /\ h[i].kind # "auth"
  /\ h' = [h EXCEPT ![i] = [Idle EXCEPT !.kind = "auth",
                              !.pc = IF user.exists THEN "done" ELSE "af_set",
                              !.response = IF user.exists THEN "existing" ELSE ""]]
  /\ UNCHANGED <<user, usage, txs, now, served>>

\* await userRef.set({planType, credits, createdAt}, {merge: true})
AfSet(i) ==
  /\ h[i].pc = "af_set"
  /\ user' = [user EXCEPT !.exists = TRUE, !.planType = "freemium",
                          !.credits = InitialCredits, !.createdAt = now]
  /\ h' = [h EXCEPT ![i].pc = "done", ![i].response = "newUser"]
  /\ UNCHANGED <<usage, txs, now, served>>

AuthFallback(i) == AfGet(i) \/ AfSet(i)

\* the first-authentication entry points, the scheduled refresh and the clock
NextLogin ==
  \/ \E i \in Handlers : UsersInit(i) \/ GoogleAuth(i) \/ AuthFallback(i) \/ Refresh(i)
  \/ Tick

SpecLogin == Init /\ [][NextLogin]_vars

\* the first-login initialisations of a new user beside that user's tool requests
NextInit ==
  \/ \E i \in Handlers : UsersInit(i) \/ AuthFallback(i)
  \/ ToolReserve
  \/ Tick

SpecInit == Init /\ [][NextInit]_vars

\* the refresh-credits routes beside the checkout webhook and spending
NextRefreshRoute ==
  \/ \E i \in Handlers : RefreshRoute(i)
  \/ RefreshCreditsRoute
  \/ CheckoutWebhook
  \/ ToolReserve
  \/ Tick

SpecRefreshRoute == InitLedger /\ [][NextRefreshRoute]_vars

\* ---- PlanValidator.estimateCreditsNeeded called on its own
\* the tool types callers pass: the keys of the ratio table and the name the
\* prompt-engineer service uses
CallerToolTypes == ToolTypes \cup {"promptEngineer"}

EstimateWords == (-6..MaxEstimateWords) \cup {99, 100, 101, 300}

\* the function returns a number for every input: it has no throw
EstimateCredits(i) ==
  /\ \E w \in EstimateWords, t \in CallerToolTypes :
       h' = [h EXCEPT ![i] = [Idle EXCEPT !.kind = "estimate", !.pc = "done",
                                !.words = w, !.tool = t,
                                !.est = estimateCreditsNeeded(w, t),
                                !.response = "returned"]]
  /\ UNCHANGED <<user, usage, txs, now, served>>

NextEstimate == \E i \in RouteHandlers : EstimateCredits(i)

SpecEstimate == Init /\ [][NextEstimate]_vars

\* the allocation and refresh paths, next to a spending tool
NextAlloc ==
  \/ \E i \in Handlers : Refresh(i) \/ AllocatePro(i)
  \/ AddCredits
  \/ RefreshCreditsRoute
  \/ ToolReserve
  \/ CheckoutWebhook
  \/ Tick

SpecAlloc == InitLedger /\ [][NextAlloc]_vars

\* the handlers that hold a credit session
NextSession == \E i \in Handlers : WriterGenerate(i) \/ Analyze(i)

SpecSession == InitLedger /\ [][NextSession]_vars

\* the assignment generation route of detectorService.js
NextGenerate == \E i \in Handlers : DetectorGenerate(i)

SpecGenerate == InitLedger /\ [][NextGenerate]_vars

\* ---- services/creditScheduler.js: the daily job. It reads the users whose
\* planType is "freemium", skips a document without createdAt, and on the
\* signup day calls creditAllocationService.refreshFreemiumCredits; a user of
\* another plan is not in the query and the run does nothing for it.
ScheduledRun(i) ==
  /\ user.exists
  /\ user.planType = "freemium"
  /\ user.createdAt # NoTime
  /\ RfGet(i)

ScheduledJob == \E i \in Handlers : ScheduledRun(i) \/ RfUpdate(i)

\* the subscription of a paid user ends: subscriptionStatus becomes "cancelled"
CancelSubscription ==
  /\ user.exists
  /\ user.planType \in PaidPlans
  /\ user.subscriptionStatus # "cancelled"
  /\ user' = [user EXCEPT !.subscriptionStatus = "cancelled"]
  /\ UNCHANGED <<usage, txs, now, served, h>>

NextDowngrade ==
  \/ ScheduledJob
  \/ CheckoutWebhook
  \/ CancelSubscription
  \/ ToolReserve
  \/ Tick

\* the job runs every day: a run that has something to do is not postponed
\* forever
SpecDowngrade == InitLedger /\ [][NextDowngrade]_vars /\ WF_vars(ScheduledJob)

\* the writer route that refunds on a generation error
NextWriterRoute == \E i \in Handlers : WriterRoute(i)

SpecWriterRoute == InitLedger /\ [][NextWriterRoute]_vars

\* the assignment creation route
NextCreate == \E i \in Handlers : CreateAssignment(i)

SpecCreate == InitLedger /\ [][NextCreate]_vars

\* ---- services/creditScheduler.js day by day: the job runs once on every
\* day of a month and refreshes a user only on the day of the month equal to
\* the day of the month of createdAt
SignupDays == {15, 31}

MonthLengths == {28, 30, 31}

\* a new calendar month begins for a user who signed up on day `words`; `est`
\* is the number of days of the month, `actual` the day of the next run and
\* `final` the number of refreshFreemiumCredits invocations so far
JobMonthStart(i) ==
  /\ Free(i)
  /\ now < MaxMonth
  /\ now' = now + 1
  /\ \E signupDay \in SignupDays, days \in MonthLengths :
       h' = [h EXCEPT ![i] = [Idle EXCEPT !.kind = "schedule", !.pc = "job_run",
                                          !.words = signupDay, !.est = days,
                                          !.actual = 1]]
  /\ UNCHANGED <<user, usage, txs, served>>

\* one run of the job on day `actual`: currentDay === signupDay decides
JobDailyRun(i) ==
  /\ h[i].pc = "job_run"
  /\ LET invoked == /\ user.exists
                    /\ user.planType = "freemium"
                    /\ user.createdAt # NoTime
                    /\ h[i].actual = h[i].words
         due == invoked /\ RefreshOutcome(user, now) = "refresh"
     IN /\ user' = IF due
                     THEN [user EXCEPT !.credits = FreemiumMonthlyCredits,
                                       !.lastCreditRefresh = now]
                     ELSE user
        /\ h' = [h EXCEPT ![i].final = IF invoked THEN @ + 1 ELSE @,
                          ![i].actual = IF h[i].actual < h[i].est THEN @ + 1 ELSE @,
                          ![i].pc = IF h[i].actual < h[i].est THEN "job_run" ELSE "done",
                          ![i].response = IF h[i].actual < h[i].est THEN ""
                                          ELSE "month over"]
  /\ UNCHANGED <<usage, txs, now, served>>

DailyJob(i) == JobMonthStart(i) \/ JobDailyRun(i)

NextSchedule == (\E i \in RouteHandlers : DailyJob(i)) \/ ToolReserve

SpecSchedule == InitLedger /\ [][NextSchedule]_vars

\* the usage history route, with the months passing
NextHistory == (\E i \in Handlers : UsageHistory(i)) \/ Tick

SpecHistory == InitLedger /\ [][NextHistory]_vars

Next ==
  \/ NextLedger
  \/ NextSession
  \/ NextResearch
  \/ NextAlloc
  \/ NextEstimate
  \/ NextLogin
  \/ NextGenerate
  \/ NextHistory
  \/ NextDowngrade
  \/ NextWriterRoute
  \/ NextCreate
  \/ NextInit
  \/ NextRefreshRoute
  \/ NextSchedule

Spec == Init /\ [][Next]_vars

\* ------------------------------------------------------------------ claims
RECURSIVE SumHeld(_, _)
SumHeld(t, n) ==
  IF n = 0 THEN 0
  ELSE SumHeld(t, n - 1)
       + (IF t[n].state = "rolled_back" THEN 0 ELSE t[n].creditsReserved)

\* credits held by the reservations that succeeded and were not rolled back
Held == SumHeld(txs, Len(txs))

\* C1: no double-spend. Under every interleaving of the reserve calls against
\* the user's balance B (the 200 credits of a new account), the credits taken
\* by the reservations that succeeded never exceed B, and the balance is
\* exactly B minus what they hold: of two concurrent reserves of 150 one
\* succeeds and the balance ends at 50.
C1_NoDoubleSpend ==
  user.exists => /\ Held <= InitialCredits
                 /\ user.credits = InitialCredits - Held

C1_Witness ==
  /\ \A i \in Handlers : h[i].kind = "assignment" /\ h[i].pc = "done"
                         /\ h[i].words = 450
  /\ h[1].res.success /\ ~h[2].res.success
  /\ h[2].response = "insufficient"
  /\ user.credits = 50

ReserveStep(i) == h[i].pc = "gaw_reserve" /\ h'[i].pc # "gaw_reserve"

Terminal == {"committed", "rolled_back"}

CallStep(i, kind) == h'[i] # h[i] /\ h'[i].kind = kind

\* C5: a transaction that reached committed or rolled_back stays there under
\* every later commit and rollback call (so it is never both); a commit of a
\* committed transaction changes nothing and reports no error; a commit of a
\* rolled-back transaction raises an error.
C5_Terminality ==
  [][/\ \A id \in DOMAIN txs :
          txs[id].state \in Terminal => txs'[id].state = txs[id].state
     /\ \A i \in Handlers : CallStep(i, "commit") =>
          LET id == h'[i].res.transactionId
          IN /\ txs[id].state = "committed" =>
                  /\ h'[i].response = "ok" /\ txs' = txs /\ user' = user
             /\ txs[id].state = "rolled_back" =>
                  /\ h'[i].response = "error" /\ txs' = txs /\ user' = user]_vars

\* analyzeContent has rolled its session back and a later commit of that
\* session has been refused
C5_Witness ==
  \E i, j \in Handlers :
    /\ h[i].kind = "commit" /\ h[i].response = "error"
    /\ h[j].kind = "analyze" /\ h[j].rolledBack
    /\ h[j].res.transactionId = h[i].res.transactionId
    /\ TxState(txs, h[i].res.transactionId) = "rolled_back"

\* the step of handler i out of position pc
StepFrom(i, pc) == h[i].pc = pc /\ h'[i].pc # pc

C6_RollbackOnProviderFailure ==
  \A i \in RouteHandlers :
    (h[i].pc = "done" /\ h[i].res.success /\ h[i].threw = "provider") =>
      TxState(txs, h[i].res.transactionId) = "rolled_back"

\* the error code the documented order of checks gives: plan existence, plan
\* validity, monthly cap, balance
DocumentedPlanCode(u) ==
  IF ~u.exists THEN "PLAN_NOT_FOUND"
  ELSE IF getUserPlanType(u) \notin PlanTypes THEN "INVALID_PLAN"
  ELSE ""

DocumentedCreditCode(u, used, words, tool) ==
  IF getUserPlanType(u) = "freemium" /\ used >= limits("freemium")
    THEN "MONTHLY_CREDIT_LIMIT_REACHED"
  ELSE IF u.credits < CeilDiv(words, ratios(tool)) THEN "INSUFFICIENT_CREDITS"
  ELSE ""

\* C9: validateRequest checks plan existence, plan validity, the monthly cap
\* and the balance in that order and reports the first failure: a freemium
\* user at or over the monthly cap gets MONTHLY_CREDIT_LIMIT_REACHED even
\* with a sufficient balance.
C9_ValidationOrder ==
  [][\A i \in RouteHandlers :
       /\ StepFrom(i, "v_plan") => h'[i].code = DocumentedPlanCode(user)
       /\ (StepFrom(i, "v_credits") /\ user.exists) =>
            h'[i].code = DocumentedCreditCode(user, getMonthlyUsage(usage, now),
                                              ValidateWords(h[i]), "research")]_vars

ValidateStep(i) == StepFrom(i, "v_plan") \/ StepFrom(i, "v_credits")

\* C10: validateRequest is read-only: none of its steps changes the user
\* document, the usage records or the ledger, whatever the outcome.
C10_ValidateReadOnly ==
  [][\A i \in RouteHandlers :
       ValidateStep(i) => UNCHANGED <<user, usage, txs, now>>]_vars

\* a validation has failed for an existing user and left the documents alone
C10_Witness ==
  \E i \in RouteHandlers :
    /\ h[i].pc = "done" /\ h[i].code = "INSUFFICIENT_CREDITS"
    /\ user.exists /\ user.credits > 0 /\ Len(txs) > 0

\* C2: the credits field of the user document is never negative, whatever
\* sequence of reserves, refreshes, allocations and direct credit updates ran
\* (POST /user/:uid/credits with any amount, POST /refresh-credits with any
\* body value).
C2_CreditsNonNegative == user.exists => user.credits >= 0

\* the document satisfies what refreshFreemiumCredits checks before it writes
RefreshDue(u, month) == RefreshOutcome(u, month) = "refresh"

\* C7: every change of credits is one atomic read-check-write: the monthly
\* refresh writes the credits only to a document that, at the moment of the
\* write, is the freemium, not-yet-refreshed document its check read.
C7_AtomicReadCheckWrite ==
  [][\A i \in Handlers : StepFrom(i, "rf_update") => RefreshDue(user, h[i].at)]_vars

\* a run of refreshFreemiumCredits for a freemium account has completed in
\* the current month
RefreshedThisMonth ==
  \E j \in Handlers :
    /\ h[j].kind = "refresh" /\ h[j].pc = "done" /\ h[j].at = now
    /\ h[j].response \in {"refreshed", "Already refreshed this month"}

RefreshStart(i) == h'[i] # h[i] /\ h'[i].kind = "refresh" /\ h[i].pc # "rf_update"

\* C8: the monthly refresh is idempotent within a calendar month: a run of
\* refreshFreemiumCredits that starts after a run has completed in the same
\* month returns skipped and changes neither credits nor lastCreditRefresh,
\* whatever was spent in between.
C8_RefreshIdempotent ==
  [][\A i \in Handlers : (RefreshStart(i) /\ RefreshedThisMonth) =>
        /\ h'[i].pc = "done"
        /\ h'[i].response \in {"Already refreshed this month", "Not a freemium user"}
        /\ user' = user]_vars

\* a refresh reset the credits, 450 words were spent, and a second run in the
\* same month was skipped with the balance still 50
C8_Witness ==
  \E i, j \in Handlers :
    /\ i # j
    /\ h[j].kind = "refresh" /\ h[j].response = "refreshed" /\ h[j].at = now
    /\ h[i].kind = "refresh" /\ h[i].pc = "done"
    /\ h[i].response = "Already refreshed this month"
    /\ user.credits = 50 /\ user.lastCreditRefresh = now

\* the reconcile step of POST /query for handler i
ReconcileStep(i) == StepFrom(i, "q_reconcile")

\* what the request has taken from the balance once the reconcile step is over
NetDeduction(i) == h[i].res.creditsDeducted + (user.credits - user'.credits)

\* C11: reconciliation upward: when the actual word count exceeds the
\* estimate, the handler makes a second reserve for the shortfall, the net
\* deduction of the request is ceil(actualWords / 5) and the first transaction
\* is left as it was.
C11_ReconcileUpward ==
  [][\A i \in RouteHandlers :
       (ReconcileStep(i) /\ h[i].actual > h[i].words) =>
         /\ NetDeduction(i) = CeilDiv(h[i].actual, ResearchRatio)
         /\ Len(txs') = Len(txs) + 1
         /\ txs'[h[i].res.transactionId] = txs[h[i].res.transactionId]]_vars

\* C12: reconciliation downward: when the actual word count is below the
\* estimate, the surplus is refunded and the net deduction of the request is
\* ceil(actualWords / 5).
C12_ReconcileDownward ==
  [][\A i \in RouteHandlers :
       (ReconcileStep(i) /\ h[i].actual < h[i].words) =>
         NetDeduction(i) = CeilDiv(h[i].actual, ResearchRatio)]_vars

\* words per credit of each tool as documented; the prompt-engineer service
\* names its tool "promptEngineer"
DocumentedRatio(toolType) ==
  CASE toolType = "writing" -> 3
    [] toolType = "research" -> 5
    [] toolType = "detector_detection" -> 20
    [] toolType = "detector_generation" -> 5
    [] toolType \in {"prompt_engineer", "promptEngineer"} -> 100

\* C13: for every positive word count and every tool type, named as the
\* callers name it, the estimate is ceil(wordCount / ratio) with the tool's
\* own ratio.
C13_EstimateByToolRatio ==
  \A i \in RouteHandlers :
    (h[i].kind = "estimate" /\ h[i].words > 0) =>
      h[i].est = CeilDiv(h[i].words, DocumentedRatio(h[i].tool))

\* C14: an estimate for a word count of 0 or less is rejected with an
\* InvalidArgumentError; no credit amount is returned.
C14_RejectNonPositiveWords ==
  \A i \in RouteHandlers :
    (h[i].kind = "estimate" /\ h[i].words <= 0) =>
      h[i].response = "InvalidArgumentError"

\* handler i completes a first authentication that found no user document
FirstLoginCompletes(i) ==
  /\ h[i].pc # "done" /\ h'[i].pc = "done"
  /\ h'[i].kind \in {"init", "google", "auth"}
  /\ h'[i].response = "newUser"

\* C15: when a first authentication of a user without a document completes,
\* through POST /init, the Google sign-in or the auth-middleware fallback,
\* the document has planType freemium and 200 credits.
C15_FirstLoginGrant ==
  [][\A i \in Handlers : FirstLoginCompletes(i) =>
        /\ user'.exists
        /\ user'.planType = "freemium"
        /\ user'.credits = InitialCredits]_vars

\* a Google sign-in created the document and completed with 200 credits
C15_Witness ==
  \E i \in Handlers :
    /\ h[i].kind = "google" /\ h[i].pc = "done" /\ h[i].response = "newUser"
    /\ user.subscriptionStatus = "inactive"
    /\ user.planType = "freemium" /\ user.credits = 200

\* C16: every credit session a handler creates is resolved when the handler
\* finishes, on the success path and on every failure path: it is committed
\* or rolled back, never left reserved.
C16_SessionResolvedAtFinish ==
  \A i \in Handlers :
    (h[i].pc = "done" /\ h[i].kind \in {"generate", "analyze"} /\ h[i].res.success) =>
      TxState(txs, h[i].res.transactionId) \in Terminal

\* C17: the credits a handler adds to the month's usage record are the
\* credits its kept reservation took from the balance.
C17_UsageEqualsDeducted ==
  [][\A i \in RouteHandlers :
       (StepFrom(i, "vs_record") /\ usage' # usage) =>
         /\ TxState(txs, h[i].res.transactionId) # "rolled_back"
         /\ getMonthlyUsage(usage', now) - getMonthlyUsage(usage, now)
              = h[i].res.creditsDeducted]_vars

\* C18: a failure of recordUsage leaves the balance as a successful recording
\* leaves it: the request that follows the failure changes neither the
\* balance nor the state of the reservation whose generation succeeded.
C18_UsageFailureKeepsBalance ==
  [][\A i \in Handlers :
       (h[i].threw = "usage" /\ h[i].pc # "done" /\ h'[i].pc = "done") =>
         (user' = user /\ txs' = txs)]_vars

\* C19: a usage-history request succeeds only for a months value in 1..12 and
\* then returns at most that many records; a requested value outside 1..12,
\* zero and negative values included, is answered with an error.
C19_HistoryMonthsInRange ==
  \A i \in Handlers :
    (h[i].pc = "done" /\ h[i].kind = "history" /\ h[i].given) =>
      IF h[i].words \in 1..MaxHistoryMonths
        THEN h[i].response = "success" /\ h[i].actual <= h[i].words
        ELSE h[i].response = "error"

CancelledPaid ==
  user.exists /\ user.planType \in PaidPlans /\ user.subscriptionStatus = "cancelled"

\* C20: under the daily runs of the scheduled refresh job, a pro or custom
\* user whose subscription is cancelled is eventually a freemium user with
\* 200 credits (unless the subscription is taken up again).
C20_CancelledEventuallyDowngraded ==
  CancelledPaid ~>
    \/ user.planType = "freemium" /\ user.credits = FreemiumMonthlyCredits
    \/ user.subscriptionStatus # "cancelled"

\* C21: the external generation call of a tool handler is invoked only after
\* the reserve of that request has returned success; a reserve that returns
\* success = false ends the request without generation.
C21_GenerateOnlyAfterReserve ==
  \A i \in Handlers :
    (h[i].kind = "writer_route" /\ h[i].pc \in {"wr_generate", "wr_refund"}) =>
      h[i].res.success

\* C22: a session-based handler never invokes rollback on a session it has
\* already committed, a failure of the result write after the commit included.
C22_NoRollbackAfterCommit ==
  \A i \in Handlers :
    (h[i].kind = "analyze" /\ h[i].pc = "an_rollback") =>
      TxState(txs, h[i].res.transactionId) # "committed"

\* C23: when a step of POST /research/query throws after the first reserve
\* has succeeded, the catch gives back what the request has taken so far
\* (the reservation, plus an additional deduction, minus a partial refund), so
\* that the balance at the end of the handler is the balance before it.
C23_FailureRestoresBalance ==
  [][\A i \in RouteHandlers :
       (StepFrom(i, "q_catch") /\ h[i].res.success) =>
         user'.credits - user.credits = h[i].final]_vars

C25_RefundAtMostDeducted ==
  [][\A i \in Handlers :
       StepFrom(i, "wr_refund") =>
         user'.credits - user.credits <= h[i].res.creditsDeducted]_vars

\* C26: the planType of every user document is one of the registered plan
\* types freemium, pro, custom.
C26_PlanTypeRegistered ==
  user.exists => user.planType \in PlanTypes

\* another run of refreshFreemiumCredits has reset the balance this month
ResetByAnotherRun(i) ==
  \E j \in Handlers \ {i} :
    /\ h[j].kind = "refresh" /\ h[j].response = "refreshed" /\ h[j].at = now
    /\ user.lastCreditRefresh = now

\* C27: under concurrent runs of refreshFreemiumCredits interleaved with
\* reserves, the balance is reset at most once per calendar month: the write
\* of a run that comes after another run's reset of the same month does not
\* change the credits, so a deduction made after the first reset stays.
C27_ResetOncePerMonth ==
  [][\A i \in Handlers :
       (StepFrom(i, "rf_update") /\ ResetByAnotherRun(i) /\ Held > 0) =>
         user'.credits = user.credits]_vars

\* C28: initialisation never changes the credits of a user whose document
\* already exists: the write of a pending first-login initialisation leaves
\* the credits of an existing document as they are, so a deduction made by a
\* reserve is never set back to 200.
C28_InitKeepsExistingCredits ==
  [][\A i \in Handlers :
       ((StepFrom(i, "init_set") \/ StepFrom(i, "af_set")) /\ user.exists) =>
         user'.credits = user.credits]_vars

\* a call of POST /users/refresh-credits by another handler has raised or
\* reset the balance in the current month
RouteRefreshedThisMonth(i) ==
  \E j \in Handlers \ {i} :
    /\ h[j].kind = "refresh_route" /\ h[j].pc = "done" /\ h[j].at = now
    /\ h[j].response \in {"refreshed", "success"}

\* C29: for every plan type, calls of POST /users/refresh-credits within one
\* calendar month raise or reset the balance at most once: a call that writes
\* after another call of the same month has completed leaves the credits
\* unchanged.
C29_RefreshRouteOncePerMonth ==
  [][\A i \in Handlers :
       ((StepFrom(i, "rr_update") \/ StepFrom(i, "rr_increment"))
          /\ RouteRefreshedThisMonth(i)) =>
         user'.credits = user.credits]_vars

\* C30: with the job running once every day, refreshFreemiumCredits is
\* invoked for every freemium user with a createdAt date in every calendar
\* month, the users who signed up on day 29, 30 or 31 included: when a month
\* is over, the job has invoked the refresh for the user in that month.
C30_InvokedEveryMonth ==
  \A i \in RouteHandlers :
    (h[i].kind = "schedule" /\ h[i].pc = "done") => h[i].final >= 1
====
